---- MODULE Spec2Model ----
(***************************************************************************)
(* Model of the GSP_GPU service of src/core/hle/service/gsp.cpp: the GX    *)
(* command buffer in GSP shared memory, TriggerCmdReqQueue and             *)
(* GX_FinishCommand, the register block handlers WriteHWRegs / ReadHWRegs  *)
(* and RegisterInterruptRelayQueue.                                        *)
(*                                                                         *)
(* u32 values are kept at their full width.  TLC's integers are 32-bit     *)
(* signed, so a u32 is a pair of 16-bit limbs [hi, lo] and the arithmetic  *)
(* below is arithmetic modulo 2^32 on such pairs.                          *)
(***************************************************************************)
EXTENDS Integers, Sequences, FiniteSets, TLC

----------------------------------------------------------------------------
\* Bounds of the model.

\* Guest enqueues per behaviour.
MaxEnqueue == 2
\* TriggerCmdReqQueue calls per behaviour.
MaxDispatch == 3
\* Largest header index the guest initialises the command buffer with.
MaxIndex == 1
\* Kernel event handles 1..MaxHandle exist.
MaxHandle == 1
\* Guest enqueues and dispatches per behaviour when the guest keeps to the
\* command buffer protocol.
MaxSubmit == 16
\* Iterations of the WriteHWRegs loop that are followed one by one.
MaxWrites == 3

----------------------------------------------------------------------------
\* u32 arithmetic (modulo 2^32) on limb pairs.

Limb == 2^16

\* The u32 of a natural number below 2^31.
U(n) == [hi |-> (n \div Limb) % Limb, lo |-> n % Limb]

AddU32(a, b) ==
    LET l == a.lo + b.lo
        h == a.hi + b.hi + (l \div Limb)
    IN  [hi |-> h % Limb, lo |-> l % Limb]

SubU32(a, b) ==
    LET l == a.lo - b.lo
        h == a.hi - b.hi - (IF l < 0 THEN 1 ELSE 0)
    IN  [hi |-> h % Limb, lo |-> l % Limb]

\* a >> 3
Shr3(a) == [hi |-> a.hi \div 8, lo |-> (a.lo \div 8) + (a.hi % 8) * (Limb \div 8)]

\* a < b, unsigned
LtU32(a, b) == a.hi < b.hi \/ (a.hi = b.hi /\ a.lo < b.lo)

\* a % 4
Mod4(a) == a.lo % 4

----------------------------------------------------------------------------
\* Program constants.

\* 0x800: offset of the first command buffer in GSP shared memory
CmdBufferBase == 2048
\* 0x200: size of one thread's command buffer
CmdBufferStride == 512
\* 0x20: size of the command buffer header
CmdHeaderSize == 32
\* 0x20: size of one GX command
CmdSize == 32
\* 0x420000: size of the hardware register space
HWRegsLimit == 4325376
\* 0x1EB00000: base that WriteHWRegs / ReadHWRegs add to a register address
HWRegsBase == 514850816
\* 0x1EF00000: base that WriteGPURegister adds to 4 * id
GPURegsBase == 519045120
\* u32 g_thread_id = 0, never assigned again
g_thread_id == 0
\* Handle g_shared_memory, set once by the Interface constructor
g_shared_memory == 7
\* GPU::Regs ids (core/hw/gpu.h)
MemoryFill == 4
DisplayTransfer == 768
CommandProcessor == 1592
\* Request header words of the service functions (FunctionTable)
WriteHWRegsHeader == 65666
ReadHWRegsHeader == 262272
TriggerCmdReqQueueHeader == 786432
RegisterInterruptRelayQueueHeader == 1245250
\* Slots of the command ring the guest library cycles through
RingSlots == 15
\* GXCommandId (core/hle/service/gsp.h)
REQUEST_DMA == 0
SET_COMMAND_LIST_LAST == 1
SET_MEMORY_FILL == 2
SET_DISPLAY_TRANSFER == 3
SET_TEXTURE_COPY == 4
SET_COMMAND_LIST_FIRST == 5
\* Bytes of guest memory the model keeps, at addresses 0 .. MemSize - 1
MemSize == 4

----------------------------------------------------------------------------
VARIABLES
    hex,        \* GX_CmdBufferHeader.hex of thread g_thread_id, a u32
    shmem,      \* GX commands the guest wrote to GSP shared memory, by byte offset
    mem,        \* guest memory bytes, by address
    regs,       \* device register file: address -> word
    events,     \* kernel events: handle -> [locked, permanent_locked]
    g_event,    \* Handle g_event
    cmd_buff,   \* words 0..4 of the service command buffer
    fatal,      \* the process died on a failed assertion
    call,       \* the last handler that ran, with its inputs and pre-state
    trace,      \* what the last handler did, in order
    nEnq,       \* guest enqueues so far
    nDisp,      \* TriggerCmdReqQueue calls so far
    reads,      \* per command offset: dispatcher reads since the guest wrote it
    registered, \* handles RegisterInterruptRelayQueue returned success for
    finish      \* a GX_FinishCommand between its load and its store of the header

vars == <<hex, shmem, mem, regs, events, g_event, cmd_buff, fatal, call,
          trace, nEnq, nDisp, reads, registered, finish>>

----------------------------------------------------------------------------
\* GX_CmdBufferHeader: BitField<0,8,u32> index, BitField<8,8,u32> number_commands.

index(h) == h.lo % 256

number_commands(h) == (h.lo \div 256) % 256

\* BitField<8,8,u32>::operator=: store the low 8 bits of v, keep the other bits.
SetNumberCommands(h, v) ==
    [hi |-> h.hi, lo |-> (h.lo % 256) + 256 * (v % 256)]

MakeHeader(i, n, upper) == [hi |-> upper, lo |-> i + 256 * n]

----------------------------------------------------------------------------
\* GSP shared memory.

GX_GetCmdBufferPointer(thread_id, offset) ==
    CmdBufferBase + (thread_id * CmdBufferStride) + offset

----------------------------------------------------------------------------
\* GX commands the guest writes.  A command is its 8-bit id and the payload
\* of the union member the dispatcher reads for that id.

\* What zero-filled shared memory reads as: REQUEST_DMA of 0 bytes.
ZeroCommand ==
    [id |-> REQUEST_DMA, source_address |-> U(0), dest_address |-> U(0), size |-> U(0)]

\* The command at a byte offset of shared memory: shmem holds what the guest
\* wrote, the rest is still zero.
CommandAt(m, offset) == IF offset \in DOMAIN m THEN m[offset] ELSE ZeroCommand

DmaCommands ==
    { ZeroCommand,
      [id |-> REQUEST_DMA, source_address |-> U(0), dest_address |-> U(2), size |-> U(2)],
      [id |-> REQUEST_DMA, source_address |-> U(0), dest_address |-> U(1), size |-> U(2)] }

CommandListLastCommands ==
    { [id |-> SET_COMMAND_LIST_LAST, address |-> U(402653184), size |-> U(512)],
      [id |-> SET_COMMAND_LIST_LAST, address |-> [hi |-> 65535, lo |-> 65533],
                                     size |-> U(7)] }

MemoryFillCommands ==
    { [id |-> SET_MEMORY_FILL,
       start1 |-> U(4096), end1 |-> U(8192), value1 |-> U(255),
       start2 |-> U(12288), end2 |-> U(12544), value2 |-> U(0)],
      [id |-> SET_MEMORY_FILL,
       start1 |-> U(8192), end1 |-> U(4096), value1 |-> [hi |-> 65535, lo |-> 65535],
       start2 |-> [hi |-> 65535, lo |-> 65528], end2 |-> U(15), value2 |-> U(1)] }

ImageCopyPayloads ==
    { [in_buffer_address |-> U(402653184), out_buffer_address |-> U(520093696),
       in_buffer_size |-> U(15728880), out_buffer_size |-> U(15728640),
       flags |-> U(4)] }

ImageCopyCommands ==
    { [id |-> i, image_copy |-> p] :
        i \in {SET_DISPLAY_TRANSFER, SET_TEXTURE_COPY}, p \in ImageCopyPayloads }

OtherCommands ==
    { [id |-> SET_COMMAND_LIST_FIRST], [id |-> 6], [id |-> 255] }

GXCommands ==
    DmaCommands \cup CommandListLastCommands \cup MemoryFillCommands
        \cup ImageCopyCommands \cup OtherCommands

----------------------------------------------------------------------------
\* Service::GetCommandBuffer(): words 0 .. 4 of the command buffer.
CmdBuff(w0, w1, w2, w3, w4) ==
    (0 :> w0) @@ (1 :> w1) @@ (2 :> w2) @@ (3 :> w3) @@ (4 :> w4)

----------------------------------------------------------------------------
\* Collaborators.

\* GPU::Write<u32>(addr, data) on a plain address-to-word register file.
GPUWrite(r, addr, data) == (addr :> data) @@ r

\* GPU::Read<u32>(var, addr): a register never written reads as 0.
GPURead(r, addr) == IF addr \in DOMAIN r THEN r[addr] ELSE U(0)

\* Memory::GetPointer(address): guest memory is the byte array mem.
ToNat(a) == a.hi * Limb + a.lo

\* memcpy copying forwards, one byte at a time.
RECURSIVE CopyForward(_, _, _, _)
CopyForward(m, d, s, n) ==
    IF n = 0 THEN m
    ELSE CopyForward([m EXCEPT ![d] = m[s]], d + 1, s + 1, n - 1)

\* memcpy as memmove: the destination gets the source's old bytes.
CopyMove(m, d, s, n) ==
    [a \in DOMAIN m |-> IF d <= a /\ a < d + n THEN m[s + (a - d)] ELSE m[a]]

\* memcpy(dest, src, n).  Overlapping ranges are undefined behaviour: the
\* outcomes are those of the usual implementations.
MemcpyOutcomes(m, d, s, n) ==
    IF n > 0 /\ d < s + n /\ s < d + n
    THEN {CopyForward(m, d, s, n), CopyMove(m, d, s, n)}
    ELSE {CopyMove(m, d, s, n)}

----------------------------------------------------------------------------
\* TriggerCmdReqQueue and GX_FinishCommand.

\* The lambda WriteGPURegister(id, data): GPU::Write<u32>(0x1EF00000 + 4 * id, data).
WriteGPURegister(id, data) ==
    [op |-> "GPUWrite", addr |-> AddU32(U(GPURegsBase), U(4 * id)), data |-> data]

\* case GXCommandId::REQUEST_DMA
DmaEffects(command) ==
    << [op |-> "memcpy", dest |-> command.dest_address,
        src |-> command.source_address, size |-> command.size] >>

\* SET_COMMAND_LIST_LAST telling the debugger before the trigger is written.
CommandListLastNotifyFirst(command) ==
    << WriteGPURegister(CommandProcessor + 2, Shr3(command.address)),
       WriteGPURegister(CommandProcessor, Shr3(command.size)),
       [op |-> "CommandListCalled", address |-> command.address,
        size |-> command.size],
       WriteGPURegister(CommandProcessor + 4, U(1)) >>

\* case GXCommandId::SET_COMMAND_LIST_LAST
CommandListLastEffects(command) ==
    << WriteGPURegister(CommandProcessor + 2, Shr3(command.address)),
       WriteGPURegister(CommandProcessor, Shr3(command.size)),
       WriteGPURegister(CommandProcessor + 4, U(1)),
       [op |-> "CommandListCalled", address |-> command.address,
        size |-> command.size] >>

\* SET_MEMORY_FILL with the lengths shifted like the addresses.
MemoryFillShiftedLength(command) ==
    << WriteGPURegister(MemoryFill, Shr3(command.start1)),
       WriteGPURegister(MemoryFill + 1, Shr3(command.end1)),
       WriteGPURegister(MemoryFill + 2, Shr3(SubU32(command.end1, command.start1))),
       WriteGPURegister(MemoryFill + 3, command.value1),
       WriteGPURegister(MemoryFill + 4, Shr3(command.start2)),
       WriteGPURegister(MemoryFill + 5, Shr3(command.end2)),
       WriteGPURegister(MemoryFill + 6, Shr3(SubU32(command.end2, command.start2))),
       WriteGPURegister(MemoryFill + 7, command.value2) >>

\* case GXCommandId::SET_MEMORY_FILL
MemoryFillEffects(command) ==
    << WriteGPURegister(MemoryFill, Shr3(command.start1)),
       WriteGPURegister(MemoryFill + 1, Shr3(command.end1)),
       WriteGPURegister(MemoryFill + 2, SubU32(command.end1, command.start1)),
       WriteGPURegister(MemoryFill + 3, command.value1),
       WriteGPURegister(MemoryFill + 4, Shr3(command.start2)),
       WriteGPURegister(MemoryFill + 5, Shr3(command.end2)),
       WriteGPURegister(MemoryFill + 6, SubU32(command.end2, command.start2)),
       WriteGPURegister(MemoryFill + 7, command.value2) >>

\* SET_DISPLAY_TRANSFER / SET_TEXTURE_COPY starting the transfer before its
\* parameters are written.
ImageCopyTriggerFirst(command) ==
    << WriteGPURegister(DisplayTransfer + 6, U(1)),
       WriteGPURegister(DisplayTransfer, Shr3(command.image_copy.in_buffer_address)),
       WriteGPURegister(DisplayTransfer + 1, Shr3(command.image_copy.out_buffer_address)),
       WriteGPURegister(DisplayTransfer + 3, command.image_copy.in_buffer_size),
       WriteGPURegister(DisplayTransfer + 2, command.image_copy.out_buffer_size),
       WriteGPURegister(DisplayTransfer + 4, command.image_copy.flags) >>

\* case GXCommandId::SET_DISPLAY_TRANSFER: case GXCommandId::SET_TEXTURE_COPY
ImageCopyEffects(command) ==
    << WriteGPURegister(DisplayTransfer, Shr3(command.image_copy.in_buffer_address)),
       WriteGPURegister(DisplayTransfer + 1, Shr3(command.image_copy.out_buffer_address)),
       WriteGPURegister(DisplayTransfer + 3, command.image_copy.in_buffer_size),
       WriteGPURegister(DisplayTransfer + 2, command.image_copy.out_buffer_size),
       WriteGPURegister(DisplayTransfer + 4, command.image_copy.flags),
       WriteGPURegister(DisplayTransfer + 6, U(1)) >>

\* SET_COMMAND_LIST_FIRST writing the command processor's trigger.
CommandListFirstTriggers(command) ==
    << WriteGPURegister(CommandProcessor + 4, U(1)) >>

\* case GXCommandId::SET_COMMAND_LIST_FIRST: only a break
CommandListFirstEffects(command) == << >>

\* default: ERROR_LOG(GSP, "unknown command 0x%08X", ...)
UnknownEffects(command) == << [op |-> "ERROR_LOG"] >>

\* The switch of TriggerCmdReqQueue: what the case of command.id does, in order.
CommandEffects(command) ==
    CASE command.id = REQUEST_DMA -> DmaEffects(command)
      [] command.id = SET_COMMAND_LIST_LAST -> CommandListLastEffects(command)
      [] command.id = SET_MEMORY_FILL -> MemoryFillEffects(command)
      [] command.id \in {SET_DISPLAY_TRANSFER, SET_TEXTURE_COPY} -> ImageCopyEffects(command)
      [] command.id = SET_COMMAND_LIST_FIRST -> CommandListFirstEffects(command)
      [] OTHER -> UnknownEffects(command)

\* The register file after the GPU::Write calls of a trace, in order.
RECURSIVE ApplyWrites(_, _)
ApplyWrites(r, t) ==
    IF t = << >> THEN r
    ELSE ApplyWrites(IF Head(t).op = "GPUWrite"
                     THEN GPUWrite(r, Head(t).addr, Head(t).data) ELSE r,
                     Tail(t))

\* Guest memory after the memcpy calls of a trace (at most one): its outcomes.
MemoryOutcomes(m, t) ==
    IF t # << >> /\ Head(t).op = "memcpy"
    THEN MemcpyOutcomes(m, ToNat(Head(t).dest), ToNat(Head(t).src), ToNat(Head(t).size))
    ELSE {m}

\* GX_FinishCommand advancing the index as well (the TODO of line 62).
GX_FinishCommandAdvancing(h) ==
    [hi |-> h.hi,
     lo |-> ((index(h) + 1) % 256) + 256 * ((number_commands(h) - 1) % 256)]

\* GX_FinishCommand leaving the header as it is.
GX_FinishCommandKeeps(h) == h

\* GX_FinishCommand with a floor at zero.
GX_FinishCommandSaturating(h) ==
    IF number_commands(h) = 0 THEN h ELSE SetNumberCommands(h, number_commands(h) - 1)

\* GX_FinishCommand: header->number_commands = header->number_commands - 1.
GX_FinishCommand(h) == SetNumberCommands(h, number_commands(h) - 1)

\* GX_FinishCommand's call of g_debugger.GXCommandProcessed.
FinishEffects(thread_id, h) ==
    << [op |-> "GXCommandProcessed",
        offset |-> GX_GetCmdBufferPointer(thread_id, CmdHeaderSize + index(h) * CmdSize)],
       [op |-> "SetNumberCommands"] >>

\* The command offset with the index advanced before the command is loaded.
CommandOffsetNextSlot(h) ==
    GX_GetCmdBufferPointer(g_thread_id, CmdHeaderSize + ((index(h) + 1) * CmdSize))

\* The offset of the command TriggerCmdReqQueue reads.
CommandOffset(h) == GX_GetCmdBufferPointer(g_thread_id, CmdHeaderSize + (index(h) * CmdSize))

\* The body of TriggerCmdReqQueue: the switch on the command at the header's
\* index, then GX_FinishCommand.
Dispatch ==
    /\ ~fatal
    /\ finish.pc = "idle"
    /\ LET offset == CommandOffset(hex)
           command == CommandAt(shmem, offset)
           effects == CommandEffects(command)
       IN  /\ regs' = ApplyWrites(regs, effects)
           /\ mem' \in MemoryOutcomes(mem, effects)
           /\ trace' = effects \o FinishEffects(g_thread_id, hex)
           /\ hex' = GX_FinishCommand(hex)
           /\ call' = [fn |-> "TriggerCmdReqQueue", hex |-> hex, command |-> command,
                       regs |-> regs, mem |-> mem]
           /\ reads' = IF offset \in DOMAIN reads
                       THEN [reads EXCEPT ![offset] = @ + 1] ELSE reads
    /\ nDisp' = nDisp + 1
    /\ cmd_buff' = [cmd_buff EXCEPT ![0] = U(TriggerCmdReqQueueHeader)]
    /\ UNCHANGED <<shmem, events, g_event, fatal, nEnq, registered, finish>>

\* The guest calls TriggerCmdReqQueue whenever it likes.
TriggerCmdReqQueue ==
    /\ nDisp < MaxDispatch
    /\ Dispatch

\* The guest calls TriggerCmdReqQueue only with a command pending.
TriggerCmdReqQueuePending ==
    /\ nDisp < MaxSubmit
    /\ number_commands(hex) >= 1
    /\ Dispatch

\* TriggerCmdReqQueue up to the point where GX_FinishCommand has read the
\* header word (header->number_commands - 1 and the load of the bit field
\* assignment) and has not yet stored it.
TriggerCmdReqQueueLoad ==
    /\ ~fatal
    /\ finish.pc = "idle"
    /\ nDisp < MaxDispatch
    /\ number_commands(hex) >= 1
    /\ LET offset == CommandOffset(hex)
           command == CommandAt(shmem, offset)
           effects == CommandEffects(command)
       IN  /\ regs' = ApplyWrites(regs, effects)
           /\ mem' \in MemoryOutcomes(mem, effects)
           /\ trace' = effects \o FinishEffects(g_thread_id, hex)
           /\ call' = [fn |-> "TriggerCmdReqQueue", hex |-> hex, command |-> command,
                       regs |-> regs, mem |-> mem]
           /\ reads' = IF offset \in DOMAIN reads
                       THEN [reads EXCEPT ![offset] = @ + 1] ELSE reads
    /\ finish' = [finish EXCEPT !.pc = "loaded", !.word = hex]
    /\ cmd_buff' = [cmd_buff EXCEPT ![0] = U(TriggerCmdReqQueueHeader)]
    /\ UNCHANGED <<hex, shmem, events, g_event, fatal, nEnq, nDisp, registered>>

\* The word a bit field assignment made of the current word alone, as an
\* atomic read-modify-write would.
StoredWordAtomic(loaded, current) == GX_FinishCommand(current)

\* The word GX_FinishCommand stores: the loaded word with number_commands
\* replaced, whatever the header holds by now.
StoredWord(loaded, current) == GX_FinishCommand(loaded)

\* The store of the bit field assignment: the whole header word.
TriggerCmdReqQueueStore ==
    /\ ~fatal
    /\ finish.pc = "loaded"
    /\ hex' = StoredWord(finish.word, hex)
    /\ finish' = [finish EXCEPT !.pc = "idle", !.word = U(0)]
    /\ nDisp' = nDisp + 1
    /\ call' = [fn |-> "GX_FinishCommand", word |-> finish.word, found |-> hex]
    /\ UNCHANGED <<shmem, mem, regs, events, g_event, cmd_buff, fatal, trace,
                   nEnq, reads, registered>>

----------------------------------------------------------------------------
\* The guest's side of the command buffer.

\* Before submitting anything the guest sets up the header word: an index, no
\* commands, and whatever it keeps in the upper half.
GuestInitHeader(i, upper) ==
    /\ ~fatal
    /\ nEnq = 0 /\ nDisp = 0 /\ call.fn = "none"
    /\ hex' = MakeHeader(i, 0, upper)
    /\ call' = [fn |-> "guest"]
    /\ UNCHANGED <<shmem, mem, regs, events, g_event, cmd_buff, fatal, trace,
                   nEnq, nDisp, reads, registered, finish>>

\* The guest writes a command into the next free slot of the ring and
\* increments number_commands; it may do so only while the field is below 15.
Enqueue(command) ==
    /\ ~fatal
    /\ number_commands(hex) < RingSlots
    /\ LET slot == (index(hex) + number_commands(hex)) % RingSlots
           offset == CmdBufferBase + g_thread_id * CmdBufferStride
                        + CmdHeaderSize + slot * CmdSize
       IN  /\ shmem' = (offset :> command) @@ shmem
           /\ reads' = (offset :> 0) @@ reads
    /\ hex' = SetNumberCommands(hex, number_commands(hex) + 1)
    /\ nEnq' = nEnq + 1
    /\ call' = [fn |-> "guest"]
    /\ trace' = << >>
    \* a header write that falls between the load and the store of a
    \* GX_FinishCommand in progress
    /\ finish' = IF finish.pc = "loaded" THEN [finish EXCEPT !.enqueued = TRUE]
                 ELSE finish
    /\ UNCHANGED <<mem, regs, events, g_event, cmd_buff, fatal, nDisp, registered>>

\* The guest stores another index into the header word.
GuestSetIndex(i) ==
    /\ ~fatal
    /\ i # index(hex)
    /\ hex' = [hi |-> hex.hi, lo |-> (hex.lo - index(hex)) + i]
    /\ call' = [fn |-> "guest"]
    /\ trace' = << >>
    /\ finish' = IF finish.pc = "loaded" THEN [finish EXCEPT !.reindexed = TRUE]
                 ELSE finish
    /\ UNCHANGED <<shmem, mem, regs, events, g_event, cmd_buff, fatal, nEnq,
                   nDisp, reads, registered>>

\* A guest that enqueues a few commands of any kind.
GuestEnqueue(command) ==
    /\ nEnq < MaxEnqueue
    /\ Enqueue(command)

\* A guest that fills the ring and keeps going.
GuestSubmit(command) ==
    /\ nEnq < MaxSubmit
    /\ Enqueue(command)

----------------------------------------------------------------------------
\* WriteHWRegs and ReadHWRegs.

\* Register addresses and sizes the guest passes in cmd_buff[1] and cmd_buff[2].
RegAddrs == { U(0), U(2), U(4), U(4325368), [hi |-> 65535, lo |-> 65532] }

Sizes == { U(0), U(3), U(4), U(8) }

\* Guest buffers cmd_buff[4] may point to: pointer -> the words found there.
SrcPointers == { 256 }

SrcWords(ptr) == << [hi |-> 57005, lo |-> ptr], U(48059), U(52428) >>

\* if (reg_addr + size >= 0x420000), in u32 arithmetic
OutOfRange(reg_addr, size) == ~LtU32(AddU32(reg_addr, size), U(HWRegsLimit))

\* if ((size % 4) != 0)
SizeMisaligned(size) == Mod4(size) # 0

\* The handler returns before its loop.
Rejected(reg_addr, size) == OutOfRange(reg_addr, size) \/ SizeMisaligned(size)

\* The while loop of WriteHWRegs: one GPU::Write per word, then size -= 4,
\* ++src, reg_addr += 4.
RECURSIVE WriteLoop(_, _, _)
WriteLoop(reg_addr, size, src) ==
    IF size = U(0) THEN << >>
    ELSE << [op |-> "GPUWrite", addr |-> AddU32(reg_addr, U(HWRegsBase)),
             data |-> Head(src)] >>
         \o WriteLoop(AddU32(reg_addr, U(4)), SubU32(size, U(4)), Tail(src))

\* The read loop without reg_addr += 4.
RECURSIVE ReadLoopNoAdvance(_, _)
ReadLoopNoAdvance(reg_addr, size) ==
    IF size = U(0) THEN << >>
    ELSE << [op |-> "GPURead", addr |-> AddU32(reg_addr, U(HWRegsBase))] >>
         \o ReadLoopNoAdvance(reg_addr, SubU32(size, U(4)))

\* The while loop of ReadHWRegs: one GPU::Read per word, then size -= 4,
\* ++dst, reg_addr += 4.
RECURSIVE ReadLoop(_, _)
ReadLoop(reg_addr, size) ==
    IF size = U(0) THEN << >>
    ELSE << [op |-> "GPURead", addr |-> AddU32(reg_addr, U(HWRegsBase))] >>
         \o ReadLoop(AddU32(reg_addr, U(4)), SubU32(size, U(4)))

\* What a rejected request logs.
RejectEffects == << [op |-> "ERROR_LOG"] >>

WriteHWRegs(reg_addr, size, ptr) ==
    /\ ~fatal
    /\ cmd_buff' = CmdBuff(U(WriteHWRegsHeader), reg_addr, size, U(0), U(ptr))
    /\ LET effects == IF Rejected(reg_addr, size) THEN RejectEffects
                      ELSE WriteLoop(reg_addr, size, SrcWords(ptr))
       IN  /\ trace' = effects
           /\ regs' = ApplyWrites(regs, effects)
    /\ call' = [fn |-> "WriteHWRegs", reg_addr |-> reg_addr, size |-> size,
                src |-> SrcWords(ptr), regs |-> regs]
    /\ UNCHANGED <<hex, shmem, mem, events, g_event, fatal, nEnq, nDisp,
                   reads, registered, finish>>

ReadHWRegs(reg_addr, size) ==
    /\ ~fatal
    /\ cmd_buff' = CmdBuff(U(ReadHWRegsHeader), reg_addr, size, cmd_buff[3], cmd_buff[4])
    /\ LET effects == IF Rejected(reg_addr, size) THEN RejectEffects
                      ELSE ReadLoop(reg_addr, size)
           \* the words stored through dst, in order
           words == IF Rejected(reg_addr, size) THEN << >>
                    ELSE [k \in 1 .. Len(effects) |-> GPURead(regs, effects[k].addr)]
       IN  /\ trace' = effects
           /\ call' = [fn |-> "ReadHWRegs", reg_addr |-> reg_addr, size |-> size,
                       dst |-> words]
    /\ UNCHANGED <<hex, shmem, mem, regs, events, g_event, fatal, nEnq, nDisp,
                   reads, registered, finish>>

\* WriteHWRegs one loop iteration at a time, for requests whose loop is too
\* long to follow to its end.

\* Requests: small ones, one whose 32-bit sum reg_addr + size wraps to 4, and
\* (0xE14FFFFC, 0x1EB00004), whose sum wraps to 0.
LoopRegAddrs == { U(0), U(4), [hi |-> 65535, lo |-> 65532], [hi |-> 57679, lo |-> 65532] }

LoopSizes == { U(0), U(8), [hi |-> 7856, lo |-> 4] }

\* *src after k increments of src: the words of the guest buffer, then the
\* zero words that follow it in guest memory.
SrcWordAt(ptr, k) == IF k < Len(SrcWords(ptr)) THEN SrcWords(ptr)[k + 1] ELSE U(0)

\* The loop is not running: no call yet, the last one returned, or the model
\* stopped following it.
LoopIdle ==
    call.fn = "WriteHWRegsLoop" => (call.left = U(0) \/ call.k >= MaxWrites)

\* Lines 66-83: the checks and the load of src.
WriteHWRegsEnter(reg_addr, size, ptr) ==
    /\ ~fatal
    /\ LoopIdle
    /\ cmd_buff' = CmdBuff(U(WriteHWRegsHeader), reg_addr, size, U(0), U(ptr))
    /\ trace' = IF Rejected(reg_addr, size) THEN RejectEffects ELSE << >>
    /\ call' = [fn |-> "WriteHWRegsLoop", reg_addr |-> reg_addr, size |-> size,
                ptr |-> ptr, rejected |-> Rejected(reg_addr, size),
                at |-> reg_addr,
                left |-> IF Rejected(reg_addr, size) THEN U(0) ELSE size,
                k |-> 0]
    /\ UNCHANGED <<hex, shmem, mem, regs, events, g_event, fatal, nEnq, nDisp,
                   reads, registered, finish>>

\* Lines 88-90: size -= 4; ++src; reg_addr += 4.
Iterate(c) == [c EXCEPT !.left = SubU32(@, U(4)), !.k = @ + 1, !.at = AddU32(@, U(4))]

\* Lines 85-91: one iteration of while (size > 0).
WriteHWRegsIterate ==
    /\ ~fatal
    /\ call.fn = "WriteHWRegsLoop"
    /\ call.left # U(0)
    /\ call.k < MaxWrites
    /\ LET write == [op |-> "GPUWrite", addr |-> AddU32(call.at, U(HWRegsBase)),
                     data |-> SrcWordAt(call.ptr, call.k)]
       IN  /\ regs' = GPUWrite(regs, write.addr, write.data)
           /\ trace' = Append(trace, write)
    /\ call' = Iterate(call)
    /\ UNCHANGED <<hex, shmem, mem, events, g_event, cmd_buff, fatal, nEnq, nDisp,
                   reads, registered, finish>>

----------------------------------------------------------------------------
\* RegisterInterruptRelayQueue and the kernel event it latches.

Handles == 1 .. MaxHandle

\* Kernel::SetEventLocked: ignored once the event is permanently locked.
SetEventLocked(ev, handle, locked) ==
    IF handle \notin DOMAIN ev \/ ev[handle].permanent_locked THEN ev
    ELSE [ev EXCEPT ![handle].locked = locked]

\* Kernel::SetPermanentLock
SetPermanentLock(ev, handle, permanent_locked) ==
    IF handle \notin DOMAIN ev THEN ev
    ELSE [ev EXCEPT ![handle].permanent_locked = permanent_locked]

\* _assert_msg_(GSP, cond, ...): a failed assertion ends the process.
AssertFails(cond) == ~cond

\* The assertion accepting every handle.
HandleValidAlways(handle) == TRUE

\* The condition RegisterInterruptRelayQueue asserts: (g_event != 0).
HandleValid(handle) == handle # 0

\* RegisterInterruptRelayQueue without its SetPermanentLock call.
LatchEventNoPermanent(ev, handle) == SetEventLocked(ev, handle, FALSE)

\* The event calls of RegisterInterruptRelayQueue, in order.
LatchEvent(ev, handle) ==
    SetPermanentLock(SetEventLocked(ev, handle, FALSE), handle, TRUE)

RegisterInterruptRelayQueue(flags, handle) ==
    /\ ~fatal
    /\ g_event' = handle
    /\ LET \* the request the guest sent: header, flags, a descriptor word and
           \* the handle; word 4 is whatever the last call left there
           request == CmdBuff(U(RegisterInterruptRelayQueueHeader), U(flags), U(0),
                              U(handle), cmd_buff[4])
       IN  /\ call' = [fn |-> "RegisterInterruptRelayQueue", handle |-> handle,
                       request |-> request]
           /\ IF AssertFails(HandleValid(handle))
              THEN /\ fatal' = TRUE
                   /\ trace' = << [op |-> "assert"] >>
                   /\ cmd_buff' = request
                   /\ UNCHANGED <<events, registered>>
              ELSE /\ fatal' = FALSE
                   /\ events' = LatchEvent(events, handle)
                   /\ trace' = << [op |-> "SetEventLocked"], [op |-> "SetPermanentLock"],
                                  [op |-> "cmd_buff", i |-> 0],
                                  [op |-> "cmd_buff", i |-> 2],
                                  [op |-> "cmd_buff", i |-> 4] >>
                   /\ cmd_buff' = [request EXCEPT ![0] = U(0), ![2] = U(g_thread_id),
                                                  ![4] = U(g_shared_memory)]
                   /\ registered' = registered \cup {handle}
    /\ UNCHANGED <<hex, shmem, mem, regs, nEnq, nDisp, reads, finish>>

\* The guest waits on an event (svcWaitSynchronization1): it sees whether the
\* event is locked; an event that is not permanently locked is locked again.
GuestWaitEvent(handle) ==
    /\ ~fatal
    /\ call' = [fn |-> "WaitSynchronization", handle |-> handle,
                wait |-> events[handle].locked]
    /\ events' = SetEventLocked(events, handle, TRUE)
    /\ trace' = << >>
    /\ UNCHANGED <<hex, shmem, mem, regs, g_event, cmd_buff, fatal, nEnq, nDisp,
                   reads, registered, finish>>

\* The guest clears an event (svcClearEvent).
GuestClearEvent(handle) ==
    /\ ~fatal
    /\ call' = [fn |-> "ClearEvent", handle |-> handle]
    /\ events' = SetEventLocked(events, handle, TRUE)
    /\ trace' = << >>
    /\ UNCHANGED <<hex, shmem, mem, regs, g_event, cmd_buff, fatal, nEnq, nDisp,
                   reads, registered, finish>>

\* The guest signals an event (svcSignalEvent).
GuestSignalEvent(handle) ==
    /\ ~fatal
    /\ call' = [fn |-> "SignalEvent", handle |-> handle]
    /\ events' = SetEventLocked(events, handle, FALSE)
    /\ trace' = << >>
    /\ UNCHANGED <<hex, shmem, mem, regs, g_event, cmd_buff, fatal, nEnq, nDisp,
                   reads, registered, finish>>

\* Indices the guest initialises the header with: the first slots and the
\* first index past the 15 slots of the ring.
HeaderIndices == (0 .. MaxIndex) \cup {RingSlots}

----------------------------------------------------------------------------
\* The state after Interface::Interface(): zero-filled shared memory, an empty
\* register file, every event locked, no handler run yet.

Init ==
    /\ hex = U(0)
    /\ shmem = << >>
    /\ mem = [a \in 0 .. MemSize - 1 |-> 17 * (a + 1)]
    /\ regs = << >>
    /\ events = [h \in Handles |-> [locked |-> TRUE, permanent_locked |-> FALSE]]
    /\ g_event = 0
    /\ cmd_buff = CmdBuff(U(0), U(0), U(0), U(0), U(0))
    /\ fatal = FALSE
    /\ call = [fn |-> "none"]
    /\ trace = << >>
    /\ nEnq = 0
    /\ nDisp = 0
    /\ reads = << >>
    /\ registered = {}
    /\ finish = [pc |-> "idle", word |-> U(0), enqueued |-> FALSE, reindexed |-> FALSE]

\* The command buffer alone: the guest submits commands of every kind and
\* triggers the dispatcher.
NextQueue ==
    \/ TriggerCmdReqQueue
    \/ \E i \in HeaderIndices, upper \in {0, 1} : GuestInitHeader(i, upper)
    \/ \E command \in GXCommands : GuestEnqueue(command)

SpecQueue == Init /\ [][NextQueue]_vars

\* The register block handlers alone, over every sampled request.
NextRegs ==
    \/ \E reg_addr \in RegAddrs, size \in Sizes, ptr \in SrcPointers :
            WriteHWRegs(reg_addr, size, ptr)
    \/ \E reg_addr \in RegAddrs, size \in Sizes : ReadHWRegs(reg_addr, size)

SpecRegs == Init /\ [][NextRegs]_vars

\* WriteHWRegs alone, one loop iteration per step.
NextLoop ==
    \/ \E reg_addr \in LoopRegAddrs, size \in LoopSizes, ptr \in SrcPointers :
            WriteHWRegsEnter(reg_addr, size, ptr)
    \/ WriteHWRegsIterate

SpecLoop == Init /\ [][NextLoop]_vars

\* The whole service: every handler and every guest step, interleaved.  The
\* handlers that do not touch the event take one accepted and one rejected
\* request each, and the guest submits one kind of command.
ServiceCommands ==
    { [id |-> SET_COMMAND_LIST_LAST, address |-> U(402653184), size |-> U(512)] }

ServiceRegAddrs == { U(0), U(4325376) }

Next ==
    \/ TriggerCmdReqQueue
    \/ \E i \in 0 .. MaxIndex : GuestInitHeader(i, 0)
    \/ \E command \in ServiceCommands : GuestEnqueue(command)
    \/ \E reg_addr \in ServiceRegAddrs : WriteHWRegs(reg_addr, U(4), 256)
    \/ \E reg_addr \in ServiceRegAddrs : ReadHWRegs(reg_addr, U(4))
    \/ \E handle \in 0 .. MaxHandle : RegisterInterruptRelayQueue(1, handle)
    \/ \E handle \in Handles : GuestWaitEvent(handle)
    \/ \E handle \in Handles : GuestClearEvent(handle)
    \/ \E handle \in Handles : GuestSignalEvent(handle)

Spec == Init /\ [][Next]_vars

\* The command buffer with a guest that keeps to the protocol: it enqueues
\* only below 15 pending commands and triggers only with a command pending.
NextProtocol ==
    \/ TriggerCmdReqQueuePending
    \/ \E i \in 0 .. MaxIndex, upper \in {0, 1} : GuestInitHeader(i, upper)
    \/ \E command \in ServiceCommands : GuestSubmit(command)

SpecProtocol == Init /\ [][NextProtocol]_vars

\* The command buffer with a guest that runs while GX_FinishCommand is
\* between its load and its store of the header word.
NextRace ==
    \/ TriggerCmdReqQueueLoad
    \/ TriggerCmdReqQueueStore
    \/ \E command \in ServiceCommands : GuestEnqueue(command)
    \/ \E i \in 0 .. MaxIndex : GuestSetIndex(i)

SpecRace == Init /\ [][NextRace]_vars

----------------------------------------------------------------------------
\* Properties.

\* The GPU::Write calls of a trace, in order.
GPUWrites(t) == SelectSeq(t, LAMBDA e : e.op = "GPUWrite")

\* How many steps of a trace are of one kind.
Count(t, kind) == Len(SelectSeq(t, LAMBDA e : e.op = kind))

\* The six ids the dispatcher recognises.
KnownIds ==
    { REQUEST_DMA, SET_COMMAND_LIST_LAST, SET_MEMORY_FILL, SET_DISPLAY_TRANSFER,
      SET_TEXTURE_COPY, SET_COMMAND_LIST_FIRST }

\* The last handler was TriggerCmdReqQueue.
Dispatched == call.fn = "TriggerCmdReqQueue"

\* Offset 0x20 + current_index * 0x20 of thread g_thread_id's region, for the
\* header the dispatcher found.
RecordOffset(h) ==
    (CmdBufferBase + g_thread_id * CmdBufferStride) + 32 + index(h) * 32

\* C1: a TriggerCmdReqQueue that finds number_commands >= 1 does the effect of
\* exactly one command, the one at offset 0x20 + index * 0x20 of the thread's
\* region, then GX_FinishCommand once: number_commands is one less than
\* before and nothing of a second command happens, whatever number_commands is.
C1_DispatchOneRecord ==
    (Dispatched /\ number_commands(call.hex) >= 1) =>
        LET record == CommandAt(shmem, RecordOffset(call.hex))
        IN  /\ call.command = record
            /\ trace = CommandEffects(record)
                         \o << [op |-> "GXCommandProcessed",
                                offset |-> RecordOffset(call.hex)],
                               [op |-> "SetNumberCommands"] >>
            /\ regs = ApplyWrites(call.regs, CommandEffects(record))
            /\ mem \in MemoryOutcomes(call.mem, CommandEffects(record))
            /\ Count(trace, "GXCommandProcessed") = 1
            /\ number_commands(hex) = number_commands(call.hex) - 1

\* C1 witness: a dispatch with two commands pending and index 1 ran the
\* SET_MEMORY_FILL command of slot 1.
C1_Witness ==
    /\ Dispatched
    /\ number_commands(call.hex) = 2
    /\ index(call.hex) = 1
    /\ call.command.id = SET_MEMORY_FILL
    /\ number_commands(hex) = 1

\* C2 as stated: number_commands after a dispatch is never above its value
\* before, number_commands = 0 included.
C2_NeverIncreases ==
    Dispatched => number_commands(hex) <= number_commands(call.hex)

\* C2 amended: from number_commands >= 1 a dispatch leaves the field exactly
\* one less, so never above its value before; from number_commands = 0 the
\* 8-bit field wraps to 255.
C2_DecrementWraps ==
    Dispatched =>
        IF number_commands(call.hex) >= 1
        THEN /\ number_commands(hex) = number_commands(call.hex) - 1
             /\ number_commands(hex) <= number_commands(call.hex)
        ELSE number_commands(hex) = 255

\* C2 witness: a dispatch found number_commands = 0 and left 255.
C2_Witness ==
    /\ Dispatched
    /\ number_commands(call.hex) = 0
    /\ number_commands(hex) = 255

\* C3: once the guest has enqueued N >= 1 commands and TriggerCmdReqQueue has
\* run once per enqueued command, every command the guest wrote has been read
\* by the dispatcher exactly once.
C3_EachRecordOnce ==
    (nEnq >= 1 /\ nDisp = nEnq) => \A offset \in DOMAIN reads : reads[offset] = 1

\* The bound and alignment rule of a register block request: the 32-bit sum
\* reg_addr + size below 0x420000, a 4-byte aligned address, a size that is a
\* multiple of 4.
ViolatesRule(reg_addr, size) ==
    \/ ~LtU32(AddU32(reg_addr, size), U(HWRegsLimit))
    \/ reg_addr.lo % 4 # 0
    \/ size.lo % 4 # 0

\* C4: a WriteHWRegs whose request violates the bound or the alignment rule
\* writes nothing: no GPU::Write is issued and the register file is as before.
C4_RejectedWritesNothing ==
    (call.fn = "WriteHWRegs" /\ ViolatesRule(call.reg_addr, call.size)) =>
        /\ Count(trace, "GPUWrite") = 0
        /\ regs = call.regs

\* A request the round trip is stated for: base + size < 0x420000 as numbers,
\* address and size multiples of 4.
RoundTripRequest(reg_addr, size) ==
    /\ reg_addr.hi < 2^14 /\ size.hi < 2^14
    /\ ToNat(reg_addr) + ToNat(size) < HWRegsLimit
    /\ reg_addr.lo % 4 = 0
    /\ size.lo % 4 = 0

\* C5: a WriteHWRegs of words w[0..n-1] at an aligned in-range (base, size)
\* followed by a ReadHWRegs of the same (base, size) stores exactly
\* w[0..n-1], in order, through the destination.
C5_RoundTrip ==
    [][ ( /\ call.fn = "WriteHWRegs"
          /\ call'.fn = "ReadHWRegs"
          /\ call'.reg_addr = call.reg_addr
          /\ call'.size = call.size
          /\ RoundTripRequest(call.reg_addr, call.size) )
        => call'.dst = SubSeq(call.src, 1, ToNat(call.size) \div 4) ]_vars

\* C5 witness: a ReadHWRegs of 8 bytes at register address 4 returned the two
\* words the guest buffer starts with, over an older word at that address.
C5_Witness ==
    /\ call.fn = "ReadHWRegs"
    /\ call.reg_addr = U(4)
    /\ call.size = U(8)
    /\ call.dst = << [hi |-> 57005, lo |-> 256], U(48059) >>

\* C6: RegisterInterruptRelayQueue with handle 0 ends in the fatal state and
\* reports no success: it writes no word of the reply, so word 0 is still the
\* request header and not the result 0.
C6_ZeroHandleFatal ==
    (call.fn = "RegisterInterruptRelayQueue" /\ call.handle = 0) =>
        /\ fatal
        /\ Count(trace, "cmd_buff") = 0
        /\ cmd_buff = call.request
        /\ cmd_buff[0] # U(0)

\* C6 witness: the handler ran with handle 0 after a successful registration.
C6_Witness ==
    /\ call.fn = "RegisterInterruptRelayQueue"
    /\ call.handle = 0
    /\ registered # {}
    /\ fatal

\* C7: an event RegisterInterruptRelayQueue succeeded for is unlocked in every
\* later state, and every wait on it finds it unlocked, whatever handlers and
\* guest event calls ran in between.
C7_Latched ==
    \A handle \in registered :
        /\ ~events[handle].locked
        /\ (call.fn = "WaitSynchronization" /\ call.handle = handle) => ~call.wait

\* C7 witness: after a dispatch and a register block write, the guest waited
\* on the registered event and found it unlocked.
C7_Witness ==
    /\ call.fn = "WaitSynchronization"
    /\ call.handle \in registered
    /\ ~call.wait
    /\ nDisp > 0
    /\ regs # << >>

\* C8: a dispatch of a command of unknown id, or of SET_COMMAND_LIST_FIRST,
\* issues no register write and no memory copy, is not fatal, and runs
\* GX_FinishCommand once: number_commands is decremented by one (in its 8
\* bits).
C8_NoOpKinds ==
    (Dispatched /\ (call.command.id \notin KnownIds
                      \/ call.command.id = SET_COMMAND_LIST_FIRST)) =>
        /\ Count(trace, "GPUWrite") = 0
        /\ Count(trace, "memcpy") = 0
        /\ regs = call.regs
        /\ mem = call.mem
        /\ ~fatal
        /\ Count(trace, "GXCommandProcessed") = 1
        /\ number_commands(hex) = (number_commands(call.hex) - 1) % 256
        /\ number_commands(call.hex) >= 1
              => number_commands(hex) = number_commands(call.hex) - 1

\* C8 witness: a dispatch of a command of id 255 with two commands pending.
C8_Witness ==
    /\ Dispatched
    /\ call.command.id = 255
    /\ number_commands(call.hex) = 2
    /\ number_commands(hex) = 1

\* The address WriteGPURegister writes for a register id.
RegisterAddress(id) == AddU32(U(GPURegsBase), U(4 * id))

\* The documented SET_MEMORY_FILL example: (0x1000, 0x2000, 0xFF, 0x3000, 0x3100, 0).
FillExample ==
    [id |-> SET_MEMORY_FILL,
     start1 |-> U(4096), end1 |-> U(8192), value1 |-> U(255),
     start2 |-> U(12288), end2 |-> U(12544), value2 |-> U(0)]

\* Its eight values: 0x200, 0x400, 0x1000, 0xFF, 0x600, 0x620, 0x100, 0.
FillExampleData ==
    << U(512), U(1024), U(4096), U(255), U(1536), U(1568), U(256), U(0) >>

\* C9: a dispatch of SET_MEMORY_FILL issues exactly eight register writes, to
\* MemoryFill + 0 .. MemoryFill + 7 in ascending order, with the values
\* start1 >> 3, end1 >> 3, end1 - start1, value1, start2 >> 3, end2 >> 3,
\* end2 - start2, value2 (differences modulo 2^32).
C9_MemoryFillWrites ==
    (Dispatched /\ call.command.id = SET_MEMORY_FILL) =>
        LET c == call.command
            w == GPUWrites(trace)
        IN  /\ Len(w) = 8
            /\ \A k \in 1 .. 8 : w[k].addr = RegisterAddress(MemoryFill + (k - 1))
            /\ [k \in 1 .. 8 |-> w[k].data]
                 = << Shr3(c.start1), Shr3(c.end1), SubU32(c.end1, c.start1), c.value1,
                      Shr3(c.start2), Shr3(c.end2), SubU32(c.end2, c.start2), c.value2 >>
            /\ c = FillExample => [k \in 1 .. 8 |-> w[k].data] = FillExampleData

\* C9 witness: the example was dispatched and gave its eight values.
C9_Witness ==
    /\ Dispatched
    /\ call.command = FillExample
    /\ Len(GPUWrites(trace)) = 8
    /\ [k \in 1 .. 8 |-> GPUWrites(trace)[k].data] = FillExampleData

\* C10: a dispatch of SET_COMMAND_LIST_LAST (address, size) does, in this
\* order: write address >> 3 to CommandProcessor + 2, write size >> 3 to
\* CommandProcessor, write 1 to CommandProcessor + 4, tell the debugger
\* (address, size) unshifted, then GX_FinishCommand; and nothing else.
C10_CommandListLast ==
    (Dispatched /\ call.command.id = SET_COMMAND_LIST_LAST) =>
        trace = << [op |-> "GPUWrite", addr |-> RegisterAddress(CommandProcessor + 2),
                    data |-> Shr3(call.command.address)],
                   [op |-> "GPUWrite", addr |-> RegisterAddress(CommandProcessor),
                    data |-> Shr3(call.command.size)],
                   [op |-> "GPUWrite", addr |-> RegisterAddress(CommandProcessor + 4),
                    data |-> U(1)],
                   [op |-> "CommandListCalled", address |-> call.command.address,
                    size |-> call.command.size],
                   [op |-> "GXCommandProcessed", offset |-> RecordOffset(call.hex)],
                   [op |-> "SetNumberCommands"] >>

\* C10 witness: the command list (0x18000000, 0x200) was dispatched: the
\* writes carry 0x3000000 and 0x40, the debugger got the command list unshifted.
C10_Witness ==
    /\ Dispatched
    /\ call.command = [id |-> SET_COMMAND_LIST_LAST, address |-> U(402653184),
                       size |-> U(512)]
    /\ Len(trace) = 6
    /\ trace[1].data = U(50331648)
    /\ trace[2].data = U(64)
    /\ trace[4] = [op |-> "CommandListCalled", address |-> U(402653184),
                   size |-> U(512)]

\* Address a lies in [start, start + n).
InRange(a, start, n) == start <= a /\ a < start + n

\* C11: a dispatch of REQUEST_DMA (source_address, dest_address, size) leaves
\* the size bytes that were at the source in the destination, changes no byte
\* of guest memory outside [dest_address, dest_address + size), and issues no
\* register write; with size 0 guest memory is as before; the dispatch is not
\* fatal and number_commands is decremented by one (in its 8 bits).
C11_DmaCopies ==
    (Dispatched /\ call.command.id = REQUEST_DMA) =>
        LET d == ToNat(call.command.dest_address)
            src == ToNat(call.command.source_address)
            n == ToNat(call.command.size)
        IN  /\ \A a \in DOMAIN mem :
                  mem[a] = IF InRange(a, d, n) THEN call.mem[src + (a - d)]
                           ELSE call.mem[a]
            /\ n = 0 => mem = call.mem
            /\ Count(trace, "GPUWrite") = 0
            /\ regs = call.regs
            /\ ~fatal
            /\ number_commands(hex) = (number_commands(call.hex) - 1) % 256

\* What holds of REQUEST_DMA whatever memcpy does with overlapping ranges:
\* the frame, no register write, no change with size 0, and the copy itself
\* when the ranges are disjoint.
DmaFrame ==
    (Dispatched /\ call.command.id = REQUEST_DMA) =>
        LET d == ToNat(call.command.dest_address)
            src == ToNat(call.command.source_address)
            n == ToNat(call.command.size)
        IN  /\ \A a \in DOMAIN mem : ~InRange(a, d, n) => mem[a] = call.mem[a]
            /\ (d + n <= src \/ src + n <= d) =>
                  \A a \in DOMAIN mem : InRange(a, d, n) => mem[a] = call.mem[src + (a - d)]
            /\ n = 0 => mem = call.mem
            /\ Count(trace, "GPUWrite") = 0
            /\ regs = call.regs

\* The request words a register block handler was called with: its header,
\* reg_addr and size.
RequestHeader(fn) ==
    IF fn = "WriteHWRegs" THEN U(WriteHWRegsHeader) ELSE U(ReadHWRegsHeader)

\* C12: a WriteHWRegs or ReadHWRegs whose request violates the bound or the
\* alignment rule reports a failure in its reply: the handler writes a result
\* into the command buffer, so the first words of the reply are not the
\* request's own words, which is all that an accepted request leaves there.
\* Stated for the requests the handlers themselves turn down.
C12_RejectionVisible ==
    (call.fn \in {"WriteHWRegs", "ReadHWRegs"} /\ Rejected(call.reg_addr, call.size)) =>
        /\ Count(trace, "cmd_buff") >= 1
        /\ <<cmd_buff[0], cmd_buff[1], cmd_buff[2]>>
              # <<RequestHeader(call.fn), call.reg_addr, call.size>>

C14_WriteLoop ==
    (call.fn = "WriteHWRegsLoop" /\ ~call.rejected) =>
        /\ Len(trace) = call.k
        /\ call.k <= ToNat(call.size) \div 4
        /\ call.left = U(0) => call.k = ToNat(call.size) \div 4
        /\ \A k \in 1 .. Len(trace) :
              trace[k] = [op |-> "GPUWrite",
                          addr |-> AddU32(U(HWRegsBase),
                                          AddU32(call.reg_addr, U(4 * (k - 1)))),
                          data |-> SrcWordAt(call.ptr, k - 1)]
        /\ \A k \in 1 .. Len(trace) - 1 : LtU32(trace[k].addr, trace[k + 1].addr)
        /\ \A j, k \in 1 .. Len(trace) : j # k => trace[j].addr # trace[k].addr
        /\ call.size = U(0) => (trace = << >> /\ call.left = U(0))

\* What holds of the loop for every accepted request: the count, the
\* addresses as 32-bit sums and the source words, and no address written
\* twice; the ascending order is left out.
WriteLoopCounts ==
    (call.fn = "WriteHWRegsLoop" /\ ~call.rejected) =>
        /\ Len(trace) = call.k
        /\ call.left = U(0) => call.k = ToNat(call.size) \div 4
        /\ \A k \in 1 .. Len(trace) :
              trace[k] = [op |-> "GPUWrite",
                          addr |-> AddU32(U(HWRegsBase),
                                          AddU32(call.reg_addr, U(4 * (k - 1)))),
                          data |-> SrcWordAt(call.ptr, k - 1)]
        /\ \A j, k \in 1 .. Len(trace) : j # k => trace[j].addr # trace[k].addr

\* C15: a dispatch of SET_DISPLAY_TRANSFER issues exactly six register
\* writes: input address >> 3 (DisplayTransfer), output address >> 3 (+ 1),
\* input size (+ 3), output size (+ 2) and flags (+ 4), in that order, and
\* last of all 1 to the trigger register (+ 6); a SET_TEXTURE_COPY with the
\* same payload issues the same writes.
C15_DisplayTransferWrites ==
    (Dispatched /\ call.command.id \in {SET_DISPLAY_TRANSFER, SET_TEXTURE_COPY}) =>
        LET p == call.command.image_copy
            w == GPUWrites(trace)
        IN  /\ Len(w) = 6
            /\ [k \in 1 .. 6 |-> w[k].addr]
                 = << RegisterAddress(DisplayTransfer),
                      RegisterAddress(DisplayTransfer + 1),
                      RegisterAddress(DisplayTransfer + 3),
                      RegisterAddress(DisplayTransfer + 2),
                      RegisterAddress(DisplayTransfer + 4),
                      RegisterAddress(DisplayTransfer + 6) >>
            /\ [k \in 1 .. 6 |-> w[k].data]
                 = << Shr3(p.in_buffer_address), Shr3(p.out_buffer_address),
                      p.in_buffer_size, p.out_buffer_size, p.flags, U(1) >>
            /\ \A k \in 1 .. 5 : w[k].addr # RegisterAddress(DisplayTransfer + 6)
            /\ GPUWrites(CommandEffects([call.command EXCEPT !.id = SET_DISPLAY_TRANSFER]))
                 = GPUWrites(CommandEffects([call.command EXCEPT !.id = SET_TEXTURE_COPY]))
            /\ regs = ApplyWrites(call.regs, w)

\* C15 witness: a SET_TEXTURE_COPY of (0x18000000, 0x1F000000, 0xF000F0,
\* 0xF00000, 4) wrote 0x3000000, 0x3E00000, the sizes and the flags, then the
\* trigger.
C15_Witness ==
    /\ Dispatched
    /\ call.command.id = SET_TEXTURE_COPY
    /\ Len(GPUWrites(trace)) = 6
    /\ [k \in 1 .. 6 |-> GPUWrites(trace)[k].data]
         = << U(50331648), U(65011712), U(15728880), U(15728640), U(4), U(1) >>
    /\ GPUWrites(trace)[6].addr = RegisterAddress(DisplayTransfer + 6)

\* C16: with every dispatch run to completion before the guest's next step,
\* from number_commands = 0, a guest that enqueues only below 15 and triggers
\* only with a command pending keeps number_commands equal to the enqueues
\* minus the dispatches so far, and within 0 .. 15.
C16_CountIsBalance ==
    /\ number_commands(hex) = nEnq - nDisp
    /\ number_commands(hex) \in 0 .. RingSlots

\* C16 witness: the guest filled the ring to 15 after earlier dispatches, and
\* a dispatch took it to 14.
C16_Witness ==
    /\ Dispatched
    /\ number_commands(call.hex) = RingSlots
    /\ number_commands(hex) = RingSlots - 1
    /\ nEnq = 16
    /\ nDisp = 2

\* No GX_FinishCommand is between its load and its store.
AtRest == finish.pc = "idle"

\* C17 as stated: whenever a guest write to the header, an increment of
\* number_commands or a change of the index, fell between the load and the
\* store of a GX_FinishCommand, number_commands no longer equals the enqueues
\* minus the completed dispatches; and it equals them when none did.
C17_AnyWriteBreaksCount ==
    AtRest =>
        ((number_commands(hex) # nEnq - nDisp)
            <=> (finish.enqueued \/ finish.reindexed))

\* C17 amended: the store writes the whole word computed from the loaded
\* one, so any guest write in between is overwritten, index changes
\* included; number_commands differs from the enqueues minus the completed
\* dispatches exactly when an increment was among the overwritten writes.
C17_LostEnqueue ==
    /\ AtRest =>
          ((number_commands(hex) # nEnq - nDisp) <=> finish.enqueued)
    /\ call.fn = "GX_FinishCommand" =>
          /\ index(hex) = index(call.word)
          /\ hex.hi = call.word.hi
          /\ number_commands(hex) = number_commands(call.word) - 1

\* C17 witness: the guest enqueued between the load and the store; the store
\* found two commands counted and left none, with one dispatch completed.
C17_Witness ==
    /\ call.fn = "GX_FinishCommand"
    /\ finish.enqueued /\ ~finish.reindexed
    /\ number_commands(call.word) = 1
    /\ number_commands(call.found) = 2
    /\ number_commands(hex) = 0
    /\ nEnq = 2 /\ nDisp = 1

\* Device address a lies in [0x1EB00000, 0x1EB00000 + 0x420000).
InRegisterSpace(a) ==
    /\ ~LtU32(a, U(HWRegsBase))
    /\ LtU32(a, U(HWRegsBase + HWRegsLimit))

\* C18: every device address WriteHWRegs writes or ReadHWRegs reads, for any
\* 32-bit (reg_addr, size), lies in [0x1EB00000, 0x1EB00000 + 0x420000):
\* the bound check turns down every request that leaves the register space,
\* those whose reg_addr + size passes 2^32 included.
C18_AddressesInRegisterSpace ==
    call.fn \in {"WriteHWRegs", "ReadHWRegs"} =>
        \A k \in 1 .. Len(trace) :
            trace[k].op \in {"GPUWrite", "GPURead"} => InRegisterSpace(trace[k].addr)

\* What the bound check does ensure: the addresses of a request whose
\* reg_addr + size stays below 2^32 lie in the register space.
AddressesInRegisterSpaceNoWrap ==
    (call.fn \in {"WriteHWRegs", "ReadHWRegs"}
       /\ ~LtU32(AddU32(call.reg_addr, call.size), call.reg_addr)) =>
        \A k \in 1 .. Len(trace) :
            trace[k].op \in {"GPUWrite", "GPURead"} => InRegisterSpace(trace[k].addr)

\* The end of thread t's region of GSP shared memory: 0x800 + (t + 1) * 0x200.
RegionEnd(t) == CmdBufferBase + (t + 1) * CmdBufferStride

\* C19: for every thread index t and every header index, the 32-byte command
\* at 0x800 + t * 0x200 + 0x20 + index * 0x20, which TriggerCmdReqQueue reads
\* and GX_FinishCommand hands to the debugger, lies wholly inside thread t's
\* region [0x800 + t * 0x200, 0x800 + (t + 1) * 0x200).
C19_RecordInsideRegion ==
    Dispatched =>
        /\ \A t \in 0 .. 3 :
              LET record == GX_GetCmdBufferPointer(t, CmdHeaderSize + index(call.hex) * CmdSize)
              IN  /\ GX_GetCmdBufferPointer(t, 0) <= record
                  /\ record + CmdSize <= RegionEnd(t)
        /\ \A k \in 1 .. Len(trace) :
              trace[k].op = "GXCommandProcessed" =>
                  /\ GX_GetCmdBufferPointer(g_thread_id, 0) <= trace[k].offset
                  /\ trace[k].offset + CmdSize <= RegionEnd(g_thread_id)
====
